---- MODULE Spec2Model ----
(***************************************************************************)
(* Model of the StableHLO QuantizePass (quantize.cc) and of the target     *)
(* graph declared by the xla_gpu IR BUILD file.                            *)
(*                                                                         *)
(* The pass is a single-threaded handler, runOnOperation, that registers   *)
(* rewrite patterns, hands them to the greedy rewrite driver and warns     *)
(* when the driver does not converge.  The driver and the pattern bodies   *)
(* belong to the compiler framework: the driver's answer is an input, and *)
(* a pattern group populated by a framework helper is an opaque record.    *)
(***************************************************************************)
EXTENDS Naturals, Sequences, FiniteSets

VARIABLES
    quant_specs_,                          \* QuantizePass::quant_specs_
    enable_weight_only_,                   \* pass option / constructor argument
    enable_per_channel_quantized_weight_,  \* pass option / constructor argument
    pc,                \* position of the single thread of control
    runs,              \* number of runOnOperation calls started on this pass object
    quant_params,      \* the local QuantPassSpec of the current run (<<>> before line 127)
    patterns,          \* the local RewritePatternSet of the current run
    prev_patterns,     \* the pattern set the previous run handed to the driver
    trace,             \* calls the current run has made into the framework, in order
    driver_result,     \* empty, or the one result of applyPatternsAndFoldGreedily
    diags,             \* diagnostics the current run has emitted
    pass_failed,       \* the pass manager's failure mark (signalPassFailure)
    last_allow,        \* <<>> or <<call>>: the AllowHybridQuantization call in progress
    default_calls,     \* results of the calls made to DefaultQuantizationSpecs()
    package,           \* rules of the BUILD file loaded so far, in file order
    analyzed           \* targets of the package whose dependencies have been resolved

vars == <<quant_specs_, enable_weight_only_, enable_per_channel_quantized_weight_,
          pc, runs, quant_params, patterns, prev_patterns, trace, driver_result,
          diags, pass_failed, last_allow, default_calls, package, analyzed>>

passFields == <<quant_specs_, enable_weight_only_, enable_per_channel_quantized_weight_>>
runLocals  == <<quant_params, patterns, trace, driver_result, diags, last_allow>>
buildVars  == <<package, analyzed>>

\* Bounds of the model.
MaxRuns == 2
MaxDefaultCalls == 2

(***************************************************************************)
(* Strings are sequences of characters, so that a substring test is a      *)
(* computation on them.                                                    *)
(***************************************************************************)
DotGeneral == <<"d","o","t","_","g","e","n","e","r","a","l">>

N_exact     == DotGeneral
N_middle    == <<"c","o","m","p","_">> \o DotGeneral \o <<"_","f","n","_","1">>
N_prefix    == DotGeneral \o <<"_","f","n">>
N_suffix    == <<"f","n","_">> \o DotGeneral
N_overlap   == <<"d","o","t","_">> \o DotGeneral
N_upper     == <<"D","O","T","_","G","E","N","E","R","A","L">>
N_truncated == <<"d","o","t","_","g","e","n","e","r","a">>
N_conv      == <<"c","o","m","p","_","c","o","n","v","_","f","n">>

EntryNames == {N_exact, N_middle, N_prefix, N_suffix, N_overlap,
               N_upper, N_truncated, N_conv}

\* llvm::StringRef::contains: some position of s starts a copy of sub.
Contains(s, sub) ==
    \E i \in 0..Len(s) :
        /\ i + Len(sub) <= Len(s)
        /\ SubSeq(s, i + 1, i + Len(sub)) = sub

\* A mistaken test that only looks at the start of the name.
StartsWith(s, sub) ==
    /\ Len(sub) <= Len(s)
    /\ SubSeq(s, 1, Len(sub)) = sub

(***************************************************************************)
(* Operations of the IR.  An operation has a name, may carry the entry     *)
(* function attribute, and carries one more attribute.                     *)
(***************************************************************************)
XlaCallModuleOp == "tf.XlaCallModule"
OtherOp == "stablehlo.add"

Ops == [name : {XlaCallModuleOp, OtherOp},
        entry_function : {<<>>} \cup {<<n>> : n \in EntryNames},
        other_attr : {"x", "y"}]

\* GetEntryFunctionName: the value of the entry function attribute, or the
\* empty string when the operation does not carry it.
GetEntryFunctionName(op) ==
    IF op.entry_function = <<>> THEN <<>> ELSE op.entry_function[1]

\* The outcome of a call that returns a bool, or that stops the process.
Returned(b) == [aborted |-> FALSE, value |-> b]
Aborted == [aborted |-> TRUE, value |-> FALSE]

\* StableHloQuantizationBase::AllowHybridQuantization.
BaseAllowHybridQuantization(op) == {Returned(FALSE)}

\* A hybrid test that trusts only the start of the name.
HybridAllowHybridQuantization_StartsWith(op) ==
    IF op.name = XlaCallModuleOp
    THEN {Returned(StartsWith(GetEntryFunctionName(op), DotGeneral))}
    ELSE {Aborted, Returned(TRUE), Returned(FALSE)}

\* StableHloQuantizationHybrid::AllowHybridQuantization.  cast<> on an
\* operation of another type fails its assertion where assertions are
\* compiled in and is undefined where they are not.
HybridAllowHybridQuantization(op) ==
    IF op.name = XlaCallModuleOp
    THEN {Returned(Contains(GetEntryFunctionName(op), DotGeneral))}
    ELSE {Aborted, Returned(TRUE), Returned(FALSE)}

Full == "StableHloQuantization"
Reverse == "StableHloQuantizationReverse"
Hybrid == "StableHloQuantizationHybrid"
QuantizationVariants == {Full, Reverse, Hybrid}

\* A dispatch in which the base struct's method is the hybrid one.
AllowHybridQuantization_AllHybrid(variant, op) ==
    HybridAllowHybridQuantization(op)

\* ConcreteT::AllowHybridQuantization: the hybrid struct hides the base's
\* static method, the full and reverse structs inherit it.
AllowHybridQuantization(variant, op) ==
    IF variant = Hybrid
    THEN HybridAllowHybridQuantization(op)
    ELSE BaseAllowHybridQuantization(op)

(***************************************************************************)
(* The configuration record.                                               *)
(***************************************************************************)
DT_FLOAT == "DT_FLOAT"
DT_QINT8 == "DT_QINT8"

\* A default-constructed QuantizationSpecs.
QuantizationSpecsDefault ==
    [inference_type |-> DT_FLOAT,
     verify_numeric |-> FALSE,
     whole_model_verify |-> FALSE]

QuantizationSpecsValues ==
    [inference_type : {DT_FLOAT, DT_QINT8},
     verify_numeric : BOOLEAN,
     whole_model_verify : BOOLEAN]

\* A version that forgets the assignment.
DefaultQuantizationSpecs_Unset == QuantizationSpecsDefault

DefaultQuantizationSpecs ==
    [QuantizationSpecsDefault EXCEPT !.inference_type = DT_QINT8]

(***************************************************************************)
(* The rules of the xla_gpu IR BUILD file, in file order.  A label that    *)
(* starts with ":" names a target of the same package.                     *)
(***************************************************************************)
Rule_friends ==
    [name |-> "friends", rule |-> "package_group",
     local_deps |-> {},
     external_deps |-> {}]

Rule_xla_gpu_td_files ==
    [name |-> "xla_gpu_td_files", rule |-> "td_library",
     local_deps |-> {},
     external_deps |-> {"@llvm-project//mlir:CallInterfacesTdFiles",
                        "@llvm-project//mlir:InferTypeOpInterfaceTdFiles",
                        "@llvm-project//mlir:OpBaseTdFiles",
                        "@llvm-project//mlir:SideEffectInterfacesTdFiles"}]

Rule_xla_gpu_dialect_inc_gen ==
    [name |-> "xla_gpu_dialect_inc_gen", rule |-> "gentbl_cc_library",
     local_deps |-> {"xla_gpu_td_files"},
     external_deps |-> {}]

\* A generated-include rule that depends on the library built from it.
Rule_xla_gpu_ops_inc_gen_Cyclic ==
    [name |-> "xla_gpu_ops_inc_gen", rule |-> "gentbl_cc_library",
     local_deps |-> {"xla_gpu_td_files", "xla_gpu"},
     external_deps |-> {}]

Rule_xla_gpu_ops_inc_gen ==
    [name |-> "xla_gpu_ops_inc_gen", rule |-> "gentbl_cc_library",
     local_deps |-> {"xla_gpu_td_files"},
     external_deps |-> {}]

Rule_xla_gpu_attrs_inc_gen ==
    [name |-> "xla_gpu_attrs_inc_gen", rule |-> "gentbl_cc_library",
     local_deps |-> {"xla_gpu_td_files"},
     external_deps |-> {}]

Rule_xla_gpu ==
    [name |-> "xla_gpu", rule |-> "cc_library",
     local_deps |-> {"xla_gpu_attrs_inc_gen",
                     "xla_gpu_dialect_inc_gen",
                     "xla_gpu_ops_inc_gen"},
     external_deps |-> {"//xla/service/gpu/model:indexing_analysis",
                        "@llvm-project//llvm:Support",
                        "@llvm-project//mlir:ArithDialect",
                        "@llvm-project//mlir:BytecodeOpInterface",
                        "@llvm-project//mlir:CallOpInterfaces",
                        "@llvm-project//mlir:FuncDialect",
                        "@llvm-project//mlir:IR",
                        "@llvm-project//mlir:InferTypeOpInterface",
                        "@llvm-project//mlir:InliningUtils",
                        "@llvm-project//mlir:SideEffectInterfaces",
                        "@llvm-project//mlir:Support"}]

BuildFile ==
    <<Rule_friends, Rule_xla_gpu_td_files, Rule_xla_gpu_dialect_inc_gen,
      Rule_xla_gpu_ops_inc_gen, Rule_xla_gpu_attrs_inc_gen, Rule_xla_gpu>>

\* The targets a sequence of rules declares.
Declared(pkg) == {pkg[i].name : i \in 1..Len(pkg)}

\* The local targets the deps of target t name.
LocalDeps(pkg, t) ==
    UNION {pkg[i].local_deps : i \in {j \in 1..Len(pkg) : pkg[j].name = t}}

\* The targets reachable from t along at most n local dependency edges,
\* one edge at least.
RECURSIVE ReachableWithin(_, _, _)
ReachableWithin(pkg, t, n) ==
    IF n = 0 THEN {}
    ELSE LET near == ReachableWithin(pkg, t, n - 1)
         IN  LocalDeps(pkg, t) \cup near
                 \cup UNION {LocalDeps(pkg, u) : u \in near}

Reachable(pkg, t) == ReachableWithin(pkg, t, Len(pkg))

Loaded == Len(package) = Len(BuildFile)

BuildFinished == Loaded /\ analyzed = Declared(package)

(***************************************************************************)
(* Pattern records.  A quantization pattern keeps the QuantPassSpec it was *)
(* constructed with; a group added by a framework helper is opaque.        *)
(***************************************************************************)
QuantizeHybridPatterns == "QuantizeHybridPatterns"
QuantizeOpWithRegionPattern == "QuantizeOpWithRegionPattern"
FusedGemmStyle == "FusedGemmStylePatterns"
QuantizeSingularOpPatterns == "QuantizeSingularOpPatterns"

QuantizationPattern(variant, params) == [kind |-> variant, args |-> <<params>>]
PatternGroup(k) == [kind |-> k, args |-> <<>>]
FusedGemmStylePatterns(flag) ==
    [kind |-> FusedGemmStyle,
     args |-> <<[enable_per_channel_quantized_weight |-> flag]>>]

Kinds(ps) == {ps[i].kind : i \in 1..Len(ps)}

ApplyDriver == "applyPatternsAndFoldGreedily"
EmitWarning == "emitWarning"

\* A QuantPassSpec whose numeric-verify flags are crossed over.
MakeQuantParams_Crossed ==
    [numeric_verify_spec |->
         [verify_numeric |-> quant_specs_.whole_model_verify,
          whole_model_verify |-> quant_specs_.verify_numeric],
     quant_specs |-> quant_specs_]

\* The QuantPassSpec runOnOperation builds from the stored specs.
MakeQuantParams ==
    [numeric_verify_spec |->
         [verify_numeric |-> quant_specs_.verify_numeric,
          whole_model_verify |-> quant_specs_.whole_model_verify],
     quant_specs |-> quant_specs_]

\* A branch taken on the other flag.
WeightOnlyBranchTaken_PerChannel == enable_per_channel_quantized_weight_

\* The condition of the branch that adds the hybrid patterns.
WeightOnlyBranchTaken == enable_weight_only_

\* The diagnostic of a convergence failure.
ConvergenceWarning ==
    [severity |-> "warning",
     message |-> "Failed to converge pattern at QuantizePass.",
     location |-> "module"]

(***************************************************************************)
(* Initial state: the BUILD file is not loaded yet and the pass object has *)
(* been constructed from two flags and a QuantizationSpecs.                *)
(***************************************************************************)
Init ==
    /\ quant_specs_ \in QuantizationSpecsValues
    /\ enable_weight_only_ \in BOOLEAN
    /\ enable_per_channel_quantized_weight_ \in BOOLEAN
    /\ pc = "idle"
    /\ runs = 0
    /\ quant_params = <<>>
    /\ patterns = <<>>
    /\ prev_patterns = <<>>
    /\ trace = <<>>
    /\ driver_result = <<>>
    /\ diags = <<>>
    /\ pass_failed = FALSE
    /\ last_allow = <<>>
    /\ default_calls = <<>>
    /\ package = <<>>
    /\ analyzed = {}

(***************************************************************************)
(* The build.  The package's rules are loaded in file order; a target is   *)
(* analyzed once the local targets its deps name are.  The build comes     *)
(* before any execution of the code.                                       *)
(***************************************************************************)
LoadRule ==
    /\ ~Loaded
    /\ package' = Append(package, BuildFile[Len(package) + 1])
    /\ UNCHANGED <<passFields, runLocals, pc, runs, prev_patterns, pass_failed,
                   default_calls, analyzed>>

AnalyzeTarget(t) ==
    /\ Loaded
    /\ t \in Declared(package) \ analyzed
    /\ LocalDeps(package, t) \subseteq analyzed
    /\ analyzed' = analyzed \cup {t}
    /\ UNCHANGED <<passFields, runLocals, pc, runs, prev_patterns, pass_failed,
                   default_calls, package>>

(***************************************************************************)
(* DefaultQuantizationSpecs(), called between runs of the pass: execution  *)
(* is single-threaded.                                                     *)
(***************************************************************************)
CallDefaultQuantizationSpecs ==
    /\ BuildFinished
    /\ pc \in {"idle", "done"}
    /\ Len(default_calls) < MaxDefaultCalls
    /\ default_calls' = Append(default_calls, DefaultQuantizationSpecs)
    /\ UNCHANGED <<passFields, runLocals, pc, runs, prev_patterns, pass_failed,
                   buildVars>>

(***************************************************************************)
(* QuantizePass::runOnOperation, step by step.                             *)
(***************************************************************************)
\* Lines 120-128: the locals of a run.
RunBegin ==
    /\ BuildFinished
    /\ pc \in {"idle", "done"}
    /\ runs < MaxRuns
    /\ runs' = runs + 1
    /\ prev_patterns' = IF pc = "done" THEN <<patterns>> ELSE prev_patterns
    /\ quant_params' = <<MakeQuantParams>>
    /\ patterns' = <<>>
    /\ trace' = <<>>
    /\ driver_result' = <<>>
    /\ diags' = <<>>
    /\ last_allow' = <<>>
    /\ pc' = "add_full_reverse"
    /\ UNCHANGED <<passFields, pass_failed, default_calls, buildVars>>

\* Lines 130-132.
AddFullReverse ==
    /\ pc = "add_full_reverse"
    /\ patterns' = patterns \o <<QuantizationPattern(Full, quant_params[1]),
                                 QuantizationPattern(Reverse, quant_params[1])>>
    /\ trace' = trace \o <<Full, Reverse>>
    /\ pc' = "weight_only_branch"
    /\ UNCHANGED <<passFields, runs, quant_params, prev_patterns, driver_result,
                   diags, pass_failed, last_allow, default_calls, buildVars>>

\* Lines 133-136, the branch taken.
AddHybrid ==
    /\ pc = "weight_only_branch"
    /\ WeightOnlyBranchTaken
    /\ patterns' = patterns \o <<QuantizationPattern(Hybrid, quant_params[1]),
                                 PatternGroup(QuantizeHybridPatterns)>>
    /\ trace' = trace \o <<Hybrid, QuantizeHybridPatterns>>
    /\ pc' = "populate"
    /\ UNCHANGED <<passFields, runs, quant_params, prev_patterns, driver_result,
                   diags, pass_failed, last_allow, default_calls, buildVars>>

\* Line 133, the branch not taken.
SkipHybrid ==
    /\ pc = "weight_only_branch"
    /\ ~WeightOnlyBranchTaken
    /\ pc' = "populate"
    /\ UNCHANGED <<passFields, runs, quant_params, patterns, prev_patterns, trace,
                   driver_result, diags, pass_failed, last_allow, default_calls,
                   buildVars>>

\* A populate step that hands the fused-GEMM patterns the other flag.
PopulateRemaining_WrongFlag ==
    /\ pc = "populate"
    /\ patterns' = patterns \o <<PatternGroup(QuantizeOpWithRegionPattern),
                                 FusedGemmStylePatterns(enable_weight_only_),
                                 PatternGroup(QuantizeSingularOpPatterns)>>
    /\ trace' = trace \o <<QuantizeOpWithRegionPattern, FusedGemmStyle,
                           QuantizeSingularOpPatterns>>
    /\ pc' = "apply"
    /\ UNCHANGED <<passFields, runs, quant_params, prev_patterns, driver_result,
                   diags, pass_failed, last_allow, default_calls, buildVars>>

\* Lines 138-141.
PopulateRemaining ==
    /\ pc = "populate"
    /\ patterns' = patterns \o
           <<PatternGroup(QuantizeOpWithRegionPattern),
             FusedGemmStylePatterns(enable_per_channel_quantized_weight_),
             PatternGroup(QuantizeSingularOpPatterns)>>
    /\ trace' = trace \o <<QuantizeOpWithRegionPattern, FusedGemmStyle,
                           QuantizeSingularOpPatterns>>
    /\ pc' = "apply"
    /\ UNCHANGED <<passFields, runs, quant_params, prev_patterns, driver_result,
                   diags, pass_failed, last_allow, default_calls, buildVars>>

\* Line 143: the call of the greedy rewrite driver.
DriverInvoke ==
    /\ pc = "apply"
    /\ trace' = Append(trace, ApplyDriver)
    /\ pc' = "driver"
    /\ UNCHANGED <<passFields, runs, quant_params, patterns, prev_patterns,
                   driver_result, diags, pass_failed, last_allow, default_calls,
                   buildVars>>

\* Inside the driver: a registered quantization pattern asks its variant
\* whether a candidate operation allows hybrid quantization.  A failed
\* assertion ends the process.
DriverMatch(i, op) ==
    /\ pc = "driver"
    /\ last_allow = <<>>
    /\ i \in 1..Len(patterns)
    /\ patterns[i].kind \in QuantizationVariants
    /\ \E o \in AllowHybridQuantization(patterns[i].kind, op) :
          /\ last_allow' = <<[variant |-> patterns[i].kind, op |-> op, outcome |-> o]>>
          /\ pc' = IF o.aborted THEN "aborted" ELSE "driver"
    /\ UNCHANGED <<passFields, runs, quant_params, patterns, prev_patterns, trace,
                   driver_result, diags, pass_failed, default_calls, buildVars>>

\* Inside the driver: the pattern has used the answer and returns.
DriverMatchEnd ==
    /\ pc = "driver"
    /\ last_allow # <<>>
    /\ last_allow' = <<>>
    /\ UNCHANGED <<passFields, pc, runs, quant_params, patterns, prev_patterns,
                   trace, driver_result, diags, pass_failed, default_calls,
                   buildVars>>

\* Line 143: the driver returns success or failure.
DriverReturn(res) ==
    /\ pc = "driver"
    /\ last_allow = <<>>
    /\ driver_result' = <<res>>
    /\ pc' = "returned"
    /\ UNCHANGED <<passFields, runs, quant_params, patterns, prev_patterns, trace,
                   diags, pass_failed, last_allow, default_calls, buildVars>>

\* Lines 143 and 149: the driver converged.
ReturnConverged ==
    /\ pc = "returned"
    /\ driver_result = <<"success">>
    /\ pc' = "done"
    /\ UNCHANGED <<passFields, runs, quant_params, patterns, prev_patterns, trace,
                   driver_result, diags, pass_failed, last_allow, default_calls,
                   buildVars>>

\* A failure path that reports an error and fails the pass.
WarnAndReturn_SignalFailure ==
    /\ pc = "returned"
    /\ driver_result = <<"failure">>
    /\ diags' = Append(diags, [ConvergenceWarning EXCEPT !.severity = "error"])
    /\ pass_failed' = TRUE
    /\ trace' = Append(trace, EmitWarning)
    /\ pc' = "done"
    /\ UNCHANGED <<passFields, runs, quant_params, patterns, prev_patterns,
                   driver_result, last_allow, default_calls, buildVars>>

\* A failure path that runs the driver again instead of warning.
WarnAndReturn_Retry ==
    /\ pc = "returned"
    /\ driver_result = <<"failure">>
    /\ driver_result' = <<>>
    /\ pc' = "apply"
    /\ UNCHANGED <<passFields, runs, quant_params, patterns, prev_patterns, trace,
                   diags, pass_failed, last_allow, default_calls, buildVars>>

\* Lines 143-149: the driver did not converge.
WarnAndReturn ==
    /\ pc = "returned"
    /\ driver_result = <<"failure">>
    /\ diags' = Append(diags, ConvergenceWarning)
    /\ trace' = Append(trace, EmitWarning)
    /\ pc' = "done"
    /\ UNCHANGED <<passFields, runs, quant_params, patterns, prev_patterns,
                   driver_result, pass_failed, last_allow, default_calls, buildVars>>

Next ==
    \/ LoadRule
    \/ \E t \in Declared(BuildFile) : AnalyzeTarget(t)
    \/ CallDefaultQuantizationSpecs
    \/ RunBegin
    \/ AddFullReverse
    \/ AddHybrid
    \/ SkipHybrid
    \/ PopulateRemaining
    \/ DriverInvoke
    \/ \E i \in 1..Len(patterns), op \in Ops : DriverMatch(i, op)
    \/ DriverMatchEnd
    \/ \E res \in {"success", "failure"} : DriverReturn(res)
    \/ ReturnConverged
    \/ WarnAndReturn

Spec == Init /\ [][Next]_vars

(***************************************************************************)
(* Properties.                                                             *)
(***************************************************************************)
\* The run has finished registering its patterns.
Registered == pc \in {"apply", "driver", "aborted", "returned", "done"}

\* The run has called the driver.
DriverCalled == pc \in {"driver", "aborted", "returned", "done"}

\* The calls the framework sees while the patterns are registered.
ExpectedRegistration ==
    <<"StableHloQuantization", "StableHloQuantizationReverse">>
    \o (IF enable_weight_only_
        THEN <<"StableHloQuantizationHybrid", "QuantizeHybridPatterns">>
        ELSE <<>>)
    \o <<"QuantizeOpWithRegionPattern", "FusedGemmStylePatterns",
         "QuantizeSingularOpPatterns">>

\* The entry function names of the model that contain "dot_general".
NamesWithDotGeneral == {N_exact, N_middle, N_prefix, N_suffix, N_overlap}

\* C1: when the driver reports failure the pass emits exactly the warning
\* "Failed to converge pattern at QuantizePass." on the module and returns;
\* no diagnostic is an error and the pass is never marked failed.
C1_WarnsOnNonConvergence ==
    /\ ~pass_failed
    /\ \A i \in 1..Len(diags) : diags[i].severity = "warning"
    /\ (pc = "done" /\ driver_result = <<"failure">>) =>
           diags = <<[severity |-> "warning",
                      message |-> "Failed to converge pattern at QuantizePass.",
                      location |-> "module"]>>

C1_Witness ==
    /\ pc = "done"
    /\ driver_result = <<"failure">>
    /\ Len(diags) = 1
    /\ enable_weight_only_
    /\ ~enable_per_channel_quantized_weight_

\* C2: on an XlaCallModuleOp the hybrid variant returns true exactly when
\* the entry function name contains "dot_general", whatever the other
\* attribute of the operation and the options of the pass are.
C2_HybridIffNameContainsDotGeneral ==
    \A k \in 1..Len(last_allow) :
        LET c == last_allow[k]
        IN  (c.variant = Hybrid /\ c.op.name = XlaCallModuleOp) =>
                /\ ~c.outcome.aborted
                /\ c.outcome.value <=>
                       (GetEntryFunctionName(c.op) \in NamesWithDotGeneral)

C2_Witness ==
    /\ last_allow # <<>>
    /\ last_allow[1].variant = Hybrid
    /\ last_allow[1].op.name = XlaCallModuleOp
    /\ last_allow[1].op.entry_function = <<N_middle>>
    /\ last_allow[1].op.other_attr = "y"
    /\ last_allow[1].outcome = Returned(TRUE)

\* C3: a run registers all its patterns, then calls the driver once, then
\* warns exactly when that call failed; the driver is not called again.
C3_FixedOrder ==
    /\ ~Registered =>
           /\ \E n \in 0..Len(ExpectedRegistration) :
                  trace = SubSeq(ExpectedRegistration, 1, n)
           /\ diags = <<>>
           /\ driver_result = <<>>
    /\ pc = "apply" => trace = ExpectedRegistration /\ diags = <<>>
    /\ (DriverCalled /\ pc # "done") =>
           /\ trace = ExpectedRegistration \o <<ApplyDriver>>
           /\ diags = <<>>
    /\ pc = "done" =>
           /\ driver_result \in {<<"success">>, <<"failure">>}
           /\ trace = ExpectedRegistration \o <<ApplyDriver>>
                          \o (IF driver_result = <<"failure">>
                              THEN <<EmitWarning>> ELSE <<>>)
           /\ Len(diags) = (IF driver_result = <<"failure">> THEN 1 ELSE 0)

C3_Witness ==
    /\ pc = "done"
    /\ driver_result = <<"failure">>
    /\ trace[Len(trace)] = EmitWarning
    /\ runs = 2

\* C4: the full and reverse patterns are registered on every run; the
\* hybrid pattern and the hybrid pattern group are registered exactly when
\* enable_weight_only_ is true.
C4_VariantsFollowWeightOnly ==
    /\ (Hybrid \in Kinds(patterns)) => enable_weight_only_
    /\ (QuantizeHybridPatterns \in Kinds(patterns)) => enable_weight_only_
    /\ Registered =>
           /\ Full \in Kinds(patterns)
           /\ Reverse \in Kinds(patterns)
           /\ (Hybrid \in Kinds(patterns)) <=> enable_weight_only_
           /\ (QuantizeHybridPatterns \in Kinds(patterns)) <=> enable_weight_only_

C4_Witness ==
    /\ pc = "apply"
    /\ enable_weight_only_
    /\ ~enable_per_channel_quantized_weight_
    /\ Hybrid \in Kinds(patterns)
    /\ QuantizeHybridPatterns \in Kinds(patterns)

\* C5: every call of DefaultQuantizationSpecs() returns a record whose
\* inference_type is DT_QINT8 and whose other fields are those of a
\* default-constructed QuantizationSpecs; all calls return the same record.
C5_DefaultSpecs ==
    /\ \A i \in 1..Len(default_calls) :
           /\ default_calls[i].inference_type = "DT_QINT8"
           /\ default_calls[i].verify_numeric = QuantizationSpecsDefault.verify_numeric
           /\ default_calls[i].whole_model_verify =
                  QuantizationSpecsDefault.whole_model_verify
    /\ \A i, j \in 1..Len(default_calls) : default_calls[i] = default_calls[j]

C5_Witness == Len(default_calls) >= 2

\* C6: the full and reverse variants answer false for every operation, and
\* with enable_weight_only_ false no registered quantization pattern allows
\* hybrid quantization of any operation.
C6_FullReverseNeverHybrid ==
    /\ \A k \in 1..Len(last_allow) :
           LET c == last_allow[k]
           IN  /\ c.variant \in {Full, Reverse} => c.outcome = Returned(FALSE)
               /\ ~enable_weight_only_ => c.outcome = Returned(FALSE)
    /\ ~enable_weight_only_ =>
           \A i \in 1..Len(patterns) :
               patterns[i].kind \in QuantizationVariants =>
                   \A op \in Ops :
                       AllowHybridQuantization(patterns[i].kind, op)
                           = {Returned(FALSE)}

C6_Witness ==
    /\ last_allow # <<>>
    /\ last_allow[1].variant = Reverse
    /\ last_allow[1].op.name = XlaCallModuleOp
    /\ last_allow[1].op.entry_function = <<N_exact>>
    /\ last_allow[1].outcome = Returned(FALSE)
    /\ ~enable_weight_only_

\* C7: the hybrid variant answers false, and does not stop the process, for
\* an operation that is not an XlaCallModuleOp.
C7_HybridFalseOnOtherOps ==
    \A k \in 1..Len(last_allow) :
        LET c == last_allow[k]
        IN  (c.variant = Hybrid /\ c.op.name # XlaCallModuleOp) =>
                c.outcome = Returned(FALSE)

\* C8: the op-with-region, fused-GEMM-style and singular-op groups are
\* registered on every run; the per-channel flag reaches the fused-GEMM-style
\* group unchanged and no other pattern, and the registered quantization
\* variants do not depend on it.
C8_CommonGroupsAndPerChannel ==
    Registered =>
        /\ {QuantizeOpWithRegionPattern, FusedGemmStyle, QuantizeSingularOpPatterns}
               \subseteq Kinds(patterns)
        /\ \A i \in 1..Len(patterns) :
               /\ patterns[i].kind = FusedGemmStyle =>
                      patterns[i].args =
                          <<[enable_per_channel_quantized_weight |->
                                 enable_per_channel_quantized_weight_]>>
               /\ patterns[i].kind \in {QuantizeOpWithRegionPattern,
                                        QuantizeSingularOpPatterns,
                                        QuantizeHybridPatterns} =>
                      patterns[i].args = <<>>
        /\ Cardinality({i \in 1..Len(patterns) : patterns[i].kind = FusedGemmStyle}) = 1
        /\ Kinds(patterns) \cap QuantizationVariants =
               {Full, Reverse} \cup (IF enable_weight_only_ THEN {Hybrid} ELSE {})

C8_Witness ==
    /\ pc = "driver"
    /\ enable_per_channel_quantized_weight_
    /\ ~enable_weight_only_
    /\ FusedGemmStyle \in Kinds(patterns)

\* The QuantPassSpec of every registered quantization pattern repeats the
\* stored specs, and a later run registers what the run before it did.
QuantParamsFromStoredSpecs ==
    /\ \A i \in 1..Len(patterns) :
           patterns[i].kind \in QuantizationVariants =>
               LET qp == patterns[i].args[1]
               IN  /\ qp.numeric_verify_spec.verify_numeric = quant_specs_.verify_numeric
                   /\ qp.numeric_verify_spec.whole_model_verify =
                          quant_specs_.whole_model_verify
                   /\ qp.quant_specs = quant_specs_
    /\ (Registered /\ prev_patterns # <<>>) => patterns = prev_patterns[1]

\* C9: the QuantPassSpec handed to the quantization patterns is derived from
\* quant_specs_ alone, no step changes quant_specs_ or the two flags, and
\* repeated runs register the same patterns with the same parameters.
C9_ParamsFromSpecsAndFrame ==
    /\ []QuantParamsFromStoredSpecs
    /\ [][passFields' = passFields]_vars

C9_Witness ==
    /\ runs = 2
    /\ pc = "apply"
    /\ prev_patterns # <<>>
    /\ quant_specs_.verify_numeric
    /\ ~quant_specs_.whole_model_verify
    /\ enable_weight_only_

\* C10: in the loaded package xla_gpu depends on the three generated-include
\* targets, each of those on xla_gpu_td_files alone, xla_gpu_td_files on no
\* local target; every local label in a deps list is declared, and no target
\* reaches itself along local dependency edges.
C10_LayeredBuildGraph ==
    Loaded =>
        /\ LocalDeps(package, "xla_gpu") =
               {"xla_gpu_attrs_inc_gen", "xla_gpu_dialect_inc_gen",
                "xla_gpu_ops_inc_gen"}
        /\ \A g \in {"xla_gpu_attrs_inc_gen", "xla_gpu_dialect_inc_gen",
                     "xla_gpu_ops_inc_gen"} :
               LocalDeps(package, g) = {"xla_gpu_td_files"}
        /\ LocalDeps(package, "xla_gpu_td_files") = {}
        /\ \A i \in 1..Len(package) : package[i].local_deps \subseteq Declared(package)
        /\ \A t \in Declared(package) : t \notin Reachable(package, t)

C10_Witness ==
    /\ BuildFinished
    /\ {"xla_gpu", "xla_gpu_td_files"} \subseteq analyzed

====
